---- MODULE Spec2Model ----
(***************************************************************************)
(* A model of OPCUAClient (integrations/opcua.py): the connection          *)
(* lifecycle, the data-change subscriptions and the value stream, run as   *)
(* asyncio coroutines against the asyncua transport.                       *)
(*                                                                         *)
(* A coroutine can be suspended only at an `await`.  Each action below is  *)
(* one uninterrupted segment of a coroutine: the completion of the await   *)
(* it was suspended at, the statements up to the next await, and the       *)
(* issuing of that next transport call.  The transport (asyncua.Client,    *)
(* the server behind it) is the environment: a call that can fail          *)
(* completes with either outcome.                                          *)
(***************************************************************************)
EXTENDS Integers, Sequences, FiniteSets, TLC

VARIABLES
    cfg,              \* the constructor's arguments (self.security_policy, ...)
    subscription,     \* self.subscription: 0 (None) or a transport handle
    subscribed_node,  \* self.subscribed_node: NoNode (None) or a node id
    latest_value,     \* self.latest_value: NoneValue (None) or a value
    value_updated,    \* self.value_updated: the asyncio.Event's flag
    connected,        \* transport: the connection is open
    security,         \* transport: the security string applied, <<>> if none
    credentials,      \* transport: TRUE once set_user/set_password were applied
    tsub,             \* transport: tsub[h] = the subscription behind handle h
    log,              \* log[t]: the transport calls task t's current (or
                      \* last) API call issued, in order
    pc,               \* pc[t]: where caller task t is suspended
    tnode,            \* tnode[t]: the local `node` of subscribe_to_node
    result,           \* result[t]: how task t's last call ended
    calls,            \* number of API calls started so far
    rpc,              \* rpc[r]: where the stream() generator of reader r is
    out,              \* what the stream() generators yielded, in order
    notifs,           \* notifs[k]: the node of the k-th notification
    space,            \* server: space[n] = the children of node n, as listed
    failing,          \* server: the browse calls <<op, n>> that fail
    bpc,              \* where the browsing coroutine is suspended
    stack,            \* the frames of the browse in progress, outermost first
    bresult,          \* how the browse call ended
    blog,             \* the transport calls <<op, n>> the browse issued
    router,           \* routers/opcua.py: the module's globals
    rtransport,       \* the Client objects the router made, their subscriptions
    rtasks,           \* the subscribe_to_node tasks the router spawned
    rhandler,         \* the router request being served, and its response
    files,            \* certs_dir: the content of each file, 0 when absent
    generated,        \* what the last generate_certificate call came to
    generations       \* generate_certificate calls made

vars == <<cfg, subscription, subscribed_node, latest_value, value_updated,
          connected, security, credentials, tsub, log, pc, tnode, result,
          calls, rpc, out, notifs, space, failing, bpc, stack, bresult, blog,
          router, rtransport, rtasks, rhandler, files, generated,
          generations>>

client  == <<subscription, subscribed_node, latest_value, value_updated>>
session == <<connected, security, credentials>>
readers == <<rpc, out>>
server  == <<space, failing>>
browser == <<server, bpc, stack, bresult, blog>>
routing == <<router, rtransport, rtasks, rhandler>>
certs   == <<files, generated, generations>>
\* Everything of the OPCUAClient object, its transport, callers and readers.
vars_client == <<cfg, client, session, tsub, log, pc, tnode, result, calls,
                 readers, notifs>>

\* ------------------------------------------------------------------ bounds
MaxCalls  == 4      \* API calls (connect, disconnect, subscribe_to_node)
MaxNotifs == 2      \* data-change notifications delivered by the transport
MaxReaderCalls == 3 \* API calls in the runs with several stream() readers
MaxNodes  == 4      \* nodes under the root of a browsed address space
MaxFaults == 1      \* browse calls the server fails in one address space
MaxRequests == 3    \* requests the router serves (subscribe, unsubscribe)
MaxGenerations == 3 \* generate_certificate calls on one certs_dir
MaxDepth  == 6      \* activations the interpreter's recursion limit allows
MaxCycleNodes == 3  \* nodes other than the root in a cyclic address space
MaxSharedNodes == 3 \* nodes other than the root in a space with a shared node

Tasks   == {1, 2}               \* concurrently running caller tasks
Readers == {1, 2}               \* consumers that may call stream()
\* The consumer of the runs with a single reader: the first one.
Consumer == CHOOSE r \in Readers : \A q \in Readers : r <= q
Nodes   == {"A", "B"}           \* node ids a caller subscribes to
NoNode  == "None"
\* self.client.nodes.root; the other nodes of an address space are 1, 2, ...
Root == 0

\* self.latest_value = None
NoneValue == -1
\* What node.read_value() returns in subscribe_to_node; the k-th notification
\* carries the value k, so that every notification is recognisable in `out`.
InitialValue == 0

\* The constructor's arguments the model starts from.
Configs ==
    { [security_policy |-> "None", message_security_mode |-> "None",
       certificate_path |-> FALSE, private_key_path |-> FALSE,
       username |-> FALSE, password |-> FALSE],
      [security_policy |-> "Basic256Sha256",
       message_security_mode |-> "SignAndEncrypt",
       certificate_path |-> TRUE, private_key_path |-> TRUE,
       username |-> TRUE, password |-> TRUE] }

\* ---------------------------------------------------------------- transport
Call(op, h, node) == [op |-> op, h |-> h, node |-> node]

\* f"{security_policy},{message_security_mode}", then the two paths when both
\* are given.
SecurityString(c) ==
    <<c.security_policy, c.message_security_mode>>
        \o (IF c.certificate_path /\ c.private_key_path
            THEN <<"certificate_path", "private_key_path">> ELSE <<>>)

\* The transport subscription create_subscription returns: no monitored item
\* yet.  Its state is "live", "deleted" (subscription.delete() succeeded) or
\* "closed" (the connection it lived on was torn down).
NewSubscription == [node |-> NoNode, state |-> "live"]

Live(h) == h \in DOMAIN tsub /\ tsub[h].state = "live"

\* How a transport round trip can end: a call on a closed connection fails,
\* any other call succeeds or fails.
Outcomes == IF connected THEN {TRUE, FALSE} ELSE {FALSE}

\* A call on a subscription handle also fails when the transport no longer
\* has that subscription.
HandleOutcomes(h) == IF connected /\ Live(h) THEN {TRUE, FALSE} ELSE {FALSE}

\* The handle the call task t is suspended at was issued on.
Handle(t) == log[t][Len(log[t])].h

\* OPCUAConfig(): the defaults.
OPCUAConfig ==
    [security_policy |-> "None", message_security_mode |-> "None",
     certificate_path |-> FALSE, private_key_path |-> FALSE,
     username |-> FALSE, password |-> FALSE]

\* The module after import, with the configuration c in force.
Imported(c) ==
    /\ router = [opcua_config |-> c, client |-> 0, subscription |-> 0,
                 latest_value |-> NoneValue, value_updated |-> FALSE]
    /\ rtransport = [conns |-> <<>>, subs |-> <<>>]
    /\ rtasks = <<>>
    /\ rhandler = [pc |-> "idle", target |-> 0, log |-> <<>>,
                   response |-> "none", calls |-> 0]

\* The client after __init__, no transport call made and no consumer started,
\* for a constructor argument list c.
Constructed(c) ==
    /\ cfg = c
    /\ subscription = 0
    /\ subscribed_node = NoNode
    /\ latest_value = NoneValue
    /\ value_updated = FALSE
    /\ connected = FALSE
    /\ security = <<>>
    /\ credentials = FALSE
    /\ tsub = <<>>
    /\ log = [t \in Tasks |-> <<>>]
    /\ pc = [t \in Tasks |-> "idle"]
    /\ tnode = [t \in Tasks |-> NoNode]
    /\ result = [t \in Tasks |-> "none"]
    /\ calls = 0
    /\ rpc = [r \in Readers |-> "idle"]
    /\ out = <<>>
    /\ notifs = <<>>

\* No browse call made yet.
Unbrowsed ==
    /\ bpc = "idle"
    /\ stack = <<>>
    /\ bresult = [kind |-> "none"]
    /\ blog = <<>>

\* No CertificateManager made: nothing called, certs_dir empty.
Unprovisioned ==
    /\ files = [client_cert |-> 0, client_key |-> 0, cert_config |-> 0]
    /\ generated = [kind |-> "none"]
    /\ generations = 0

\* The runs that do not browse are against a server whose address space is
\* the root alone.
Unserved ==
    /\ space = [n \in {Root} |-> <<>>]
    /\ failing = {}

Init ==
    /\ \E c \in Configs : Constructed(c)
    /\ Unserved
    /\ Unbrowsed
    /\ Unprovisioned
    /\ Imported(OPCUAConfig)

\* A caller starts an API call; it runs as the first task that is free.
Start(t) ==
    /\ pc[t] = "idle"
    /\ \A u \in Tasks : u < t => pc[u] # "idle"
    /\ calls < MaxCalls
    /\ calls' = calls + 1

\* The call of task t ends with the exception e of the await it was in.
Raise(t, e) ==
    /\ pc' = [pc EXCEPT ![t] = "idle"]
    /\ result' = [result EXCEPT ![t] = e]

\* The call of task t returns.
Return(t) ==
    /\ pc' = [pc EXCEPT ![t] = "idle"]
    /\ result' = [result EXCEPT ![t] = "ok"]

\* ------------------------------------------------------------------ connect
\* connect(), up to `await self.client.connect()`: set_user/set_password and
\* the issuing of the transport connect.
IssueConnect_bare(t, sofar) ==
    /\ credentials' = credentials
    /\ log' = [log EXCEPT ![t] = Append(sofar, Call("connect", 0, NoNode))]
    /\ pc' = [pc EXCEPT ![t] = "connect"]

IssueConnect(t, sofar) ==
    /\ credentials' = (credentials \/ (cfg.username /\ cfg.password))
    /\ log' = [log EXCEPT ![t] = Append(sofar, Call("connect", 0, NoNode))]
    /\ pc' = [pc EXCEPT ![t] = "connect"]

\* connect() is called: with a security policy the first await is
\* set_security_string, without one it is the transport connect.
ConnectCall(t) ==
    /\ Start(t)
    /\ IF cfg.security_policy # "None"
       THEN /\ log' = [log EXCEPT
                         ![t] = <<Call("set_security_string", 0, NoNode)>>]
            /\ pc' = [pc EXCEPT ![t] = "connect_security"]
            /\ UNCHANGED credentials
       ELSE IssueConnect(t, <<>>)
    /\ UNCHANGED <<cfg, certs, browser, routing, client, connected, security, tsub, tnode, result,
                   readers, notifs>>

\* set_security_string returns (the certificate and key load) or raises.
ConnectSecurityDone(t) ==
    /\ pc[t] = "connect_security"
    /\ \E ok \in {TRUE, FALSE} :
         IF ok
         THEN /\ security' = SecurityString(cfg)
              /\ IssueConnect(t, log[t])
              /\ UNCHANGED result
         ELSE /\ Raise(t, "SecurityFailed")
              /\ UNCHANGED <<security, credentials, log>>
    /\ UNCHANGED <<cfg, certs, browser, routing, client, connected, tsub, tnode, calls, readers, notifs>>

\* ConnectDone with the transport's exception caught and logged instead of
\* raised.
ConnectDone_swallowed(t) ==
    /\ pc[t] = "connect"
    /\ \E ok \in {TRUE, FALSE} :
         /\ connected' = ok
         /\ Return(t)
    /\ UNCHANGED <<cfg, certs, browser, routing, client, security, credentials, tsub, log, tnode,
                   calls, readers, notifs>>

\* The transport connect returns or raises; connect() lets the exception
\* through.  A connect that fails leaves no connection behind.
ConnectDone(t) ==
    /\ pc[t] = "connect"
    /\ \E ok \in {TRUE, FALSE} :
         IF ok
         THEN /\ connected' = TRUE
              /\ Return(t)
         ELSE /\ connected' = FALSE
              /\ Raise(t, "ConnectionFailed")
    /\ UNCHANGED <<cfg, certs, browser, routing, client, security, credentials, tsub, log, tnode,
                   calls, readers, notifs>>

\* --------------------------------------------------------------- disconnect
IssueDisconnect(t, sofar) ==
    /\ log' = [log EXCEPT ![t] = Append(sofar, Call("disconnect", 0, NoNode))]
    /\ pc' = [pc EXCEPT ![t] = "disconnect"]

\* disconnect() is called: `if self.subscription` awaits its delete(),
\* otherwise the first await is the transport disconnect.
DisconnectCall(t) ==
    /\ Start(t)
    /\ IF subscription # 0
       THEN /\ log' = [log EXCEPT
                         ![t] = <<Call("delete", subscription, NoNode)>>]
            /\ pc' = [pc EXCEPT ![t] = "disconnect_delete"]
       ELSE IssueDisconnect(t, <<>>)
    /\ UNCHANGED <<cfg, certs, browser, routing, client, session, tsub, tnode, result, readers, notifs>>

\* subscription.delete() returns, and the transport disconnect is issued, or
\* it raises, and disconnect() lets the exception through.
DisconnectDeleteDone(t) ==
    /\ pc[t] = "disconnect_delete"
    /\ \E ok \in HandleOutcomes(Handle(t)) :
         IF ok
         THEN /\ tsub' = [tsub EXCEPT ![Handle(t)].state = "deleted"]
              /\ IssueDisconnect(t, log[t])
              /\ UNCHANGED result
         ELSE /\ Raise(t, "DeleteFailed")
              /\ UNCHANGED <<tsub, log>>
    /\ UNCHANGED <<cfg, certs, browser, routing, client, session, tnode, calls, readers, notifs>>

\* The transport disconnect returns (the transport's disconnect() has no error
\* result): the connection is closed and with it the subscriptions still on
\* it; then latest_value = None, value_updated.clear().
DisconnectDone(t) ==
    /\ pc[t] = "disconnect"
    /\ connected' = FALSE
    /\ tsub' = [h \in DOMAIN tsub |->
                  IF tsub[h].state = "live"
                  THEN [tsub[h] EXCEPT !.state = "closed"] ELSE tsub[h]]
    /\ latest_value' = NoneValue
    /\ value_updated' = FALSE
    /\ Return(t)
    /\ UNCHANGED <<cfg, certs, browser, routing, subscription, subscribed_node, security, credentials,
                   log, tnode, calls, readers, notifs>>

\* ---------------------------------------------------- get_security_policies
\* get_security_policies() runs connect() and disconnect() of the same client
\* in its own coroutine: `await self.connect()`, `await
\* self.client.get_endpoints()`, `await self.disconnect()`.  The pcs
\* "policies_..." are the awaits of connect() and disconnect() when they run
\* inside it.
PoliciesIssueConnect(t, sofar) ==
    /\ credentials' = (credentials \/ (cfg.username /\ cfg.password))
    /\ log' = [log EXCEPT ![t] = Append(sofar, Call("connect", 0, NoNode))]
    /\ pc' = [pc EXCEPT ![t] = "policies_connect"]

PoliciesIssueDisconnect(t) ==
    /\ log' = [log EXCEPT ![t] = Append(@, Call("disconnect", 0, NoNode))]
    /\ pc' = [pc EXCEPT ![t] = "policies_disconnect"]

\* get_security_policies() is called and enters connect().
GetSecurityPoliciesCall(t) ==
    /\ Start(t)
    /\ IF cfg.security_policy # "None"
       THEN /\ log' = [log EXCEPT
                         ![t] = <<Call("set_security_string", 0, NoNode)>>]
            /\ pc' = [pc EXCEPT ![t] = "policies_security"]
            /\ UNCHANGED credentials
       ELSE PoliciesIssueConnect(t, <<>>)
    /\ UNCHANGED <<cfg, certs, browser, routing, client, connected, security, tsub,
                   tnode, result, readers, notifs>>

\* connect() inside get_security_policies: set_security_string returns or
\* raises.
GetSecurityPoliciesSecurityDone(t) ==
    /\ pc[t] = "policies_security"
    /\ \E ok \in {TRUE, FALSE} :
         IF ok
         THEN /\ security' = SecurityString(cfg)
              /\ PoliciesIssueConnect(t, log[t])
              /\ UNCHANGED result
         ELSE /\ Raise(t, "SecurityFailed")
              /\ UNCHANGED <<security, credentials, log>>
    /\ UNCHANGED <<cfg, certs, browser, routing, client, connected, tsub, tnode,
                   calls, readers, notifs>>

\* connect() returns into get_security_policies, which awaits
\* self.client.get_endpoints(); or the transport connect raises through both.
GetSecurityPoliciesConnectDone(t) ==
    /\ pc[t] = "policies_connect"
    /\ \E ok \in {TRUE, FALSE} :
         IF ok
         THEN /\ connected' = TRUE
              /\ log' = [log EXCEPT
                           ![t] = Append(@, Call("get_endpoints", 0, NoNode))]
              /\ pc' = [pc EXCEPT ![t] = "policies_endpoints"]
              /\ UNCHANGED result
         ELSE /\ connected' = FALSE
              /\ Raise(t, "ConnectionFailed")
              /\ UNCHANGED log
    /\ UNCHANGED <<cfg, certs, browser, routing, client, security, credentials, tsub,
                   tnode, calls, readers, notifs>>

\* get_endpoints() returns, and disconnect() is entered (`if
\* self.subscription` awaits its delete() first); or it raises out of
\* get_security_policies, which has no try around it.
GetSecurityPoliciesEndpointsDone(t) ==
    /\ pc[t] = "policies_endpoints"
    /\ \E ok \in Outcomes :
         IF ok
         THEN /\ IF subscription # 0
                 THEN /\ log' = [log EXCEPT ![t] =
                                   Append(@, Call("delete", subscription,
                                                  NoNode))]
                      /\ pc' = [pc EXCEPT ![t] = "policies_delete"]
                 ELSE PoliciesIssueDisconnect(t)
              /\ UNCHANGED result
         ELSE /\ Raise(t, "EndpointsFailed")
              /\ UNCHANGED log
    /\ UNCHANGED <<cfg, certs, browser, routing, client, session, tsub, tnode, calls,
                   readers, notifs>>

\* disconnect() inside get_security_policies: subscription.delete() returns
\* or raises.
GetSecurityPoliciesDeleteDone(t) ==
    /\ pc[t] = "policies_delete"
    /\ \E ok \in HandleOutcomes(Handle(t)) :
         IF ok
         THEN /\ tsub' = [tsub EXCEPT ![Handle(t)].state = "deleted"]
              /\ PoliciesIssueDisconnect(t)
              /\ UNCHANGED result
         ELSE /\ Raise(t, "DeleteFailed")
              /\ UNCHANGED <<tsub, log>>
    /\ UNCHANGED <<cfg, certs, browser, routing, client, session, tnode, calls,
                   readers, notifs>>

\* disconnect() inside get_security_policies: the transport disconnect
\* returns, the value and the event are reset, and the policy list is
\* returned.
GetSecurityPoliciesDisconnectDone(t) ==
    /\ pc[t] = "policies_disconnect"
    /\ connected' = FALSE
    /\ tsub' = [h \in DOMAIN tsub |->
                  IF tsub[h].state = "live"
                  THEN [tsub[h] EXCEPT !.state = "closed"] ELSE tsub[h]]
    /\ latest_value' = NoneValue
    /\ value_updated' = FALSE
    /\ Return(t)
    /\ UNCHANGED <<cfg, certs, browser, routing, subscription, subscribed_node,
                   security, credentials, log, tnode, calls, readers, notifs>>

\* -------------------------------------------------------- subscribe_to_node
\* subscribe_to_node(node_id) is called: get_node, self.subscribed_node =
\* node, and node.read_value() is awaited.
SubscribeCall(t, n) ==
    /\ Start(t)
    /\ tnode' = [tnode EXCEPT ![t] = n]
    /\ subscribed_node' = n
    /\ log' = [log EXCEPT ![t] = <<Call("read_value", 0, n)>>]
    /\ pc' = [pc EXCEPT ![t] = "subscribe_read"]
    /\ UNCHANGED <<cfg, certs, browser, routing, subscription, latest_value, value_updated, session,
                   tsub, result, readers, notifs>>

\* read_value() returns: self.latest_value = the value read, and
\* create_subscription(1000, handler) is awaited; or it raises.
SubscribeReadDone(t) ==
    /\ pc[t] = "subscribe_read"
    /\ \E ok \in Outcomes :
         IF ok
         THEN /\ latest_value' = InitialValue
              /\ log' = [log EXCEPT
                           ![t] = Append(@, Call("create_subscription", 0,
                                                 NoNode))]
              /\ pc' = [pc EXCEPT ![t] = "subscribe_create"]
              /\ UNCHANGED result
         ELSE /\ Raise(t, "ReadFailed")
              /\ UNCHANGED <<latest_value, log>>
    /\ UNCHANGED <<cfg, certs, browser, routing, subscription, subscribed_node, value_updated, session,
                   tsub, tnode, calls, readers, notifs>>

SubscribeCreateDone_each(t) ==
    /\ pc[t] = "subscribe_create"
    /\ \E ok \in Outcomes :
         IF ok
         THEN /\ tsub' = Append(tsub, NewSubscription)
              /\ subscription' = Len(tsub) + 1
              /\ log' = [log EXCEPT
                           ![t] = @ \o <<Call("subscribe_data_change",
                                              Len(tsub) + 1, "A"),
                                         Call("subscribe_data_change",
                                              Len(tsub) + 1, "B")>>]
              /\ pc' = [pc EXCEPT ![t] = "subscribe_monitor"]
              /\ UNCHANGED result
         ELSE /\ Raise(t, "CreateFailed")
              /\ UNCHANGED <<tsub, subscription, log>>
    /\ UNCHANGED <<cfg, certs, browser, routing, subscribed_node, latest_value, value_updated, session,
                   tnode, calls, readers, notifs>>

\* create_subscription returns: self.subscription = the new subscription, and
\* self.subscription.subscribe_data_change(node) is awaited; or it raises.
SubscribeCreateDone(t) ==
    /\ pc[t] = "subscribe_create"
    /\ \E ok \in Outcomes :
         IF ok
         THEN /\ tsub' = Append(tsub, NewSubscription)
              /\ subscription' = Len(tsub) + 1
              /\ log' = [log EXCEPT
                           ![t] = Append(@, Call("subscribe_data_change",
                                                 Len(tsub) + 1, tnode[t]))]
              /\ pc' = [pc EXCEPT ![t] = "subscribe_monitor"]
              /\ UNCHANGED result
         ELSE /\ Raise(t, "CreateFailed")
              /\ UNCHANGED <<tsub, subscription, log>>
    /\ UNCHANGED <<cfg, certs, browser, routing, subscribed_node, latest_value, value_updated, session,
                   tnode, calls, readers, notifs>>

\* subscribe_data_change returns, the node is monitored from here on; or it
\* raises.
SubscribeMonitorDone(t) ==
    /\ pc[t] = "subscribe_monitor"
    /\ \E ok \in HandleOutcomes(Handle(t)) :
         IF ok
         THEN /\ tsub' = [tsub EXCEPT ![Handle(t)].node = tnode[t]]
              /\ Return(t)
         ELSE /\ Raise(t, "MonitorFailed")
              /\ UNCHANGED tsub
    /\ UNCHANGED <<cfg, certs, browser, routing, client, session, log, tnode, calls, readers, notifs>>

\* ------------------------------------------------------------ notifications
\* _SubHandler.datachange_notification(node, val, data), called by the
\* transport for a monitored item of a live subscription: latest_value = val,
\* value_updated.set().  Event.set() completes the future of every waiter.
datachange_notification_reading(h) ==
    /\ connected
    /\ Live(h)
    /\ tsub[h].node # NoNode
    /\ Len(notifs) < MaxNotifs
    /\ notifs' = Append(notifs, tsub[h].node)
    /\ latest_value' = Len(notifs) + 1
    /\ value_updated' = TRUE
    /\ rpc' = [r \in Readers |-> IF rpc[r] = "waiting" THEN "woken" ELSE rpc[r]]
    /\ log' = [log EXCEPT ![1] = Append(@, Call("read_value", 0,
                                                tsub[h].node))]
    /\ UNCHANGED <<cfg, certs, browser, routing, subscription, subscribed_node, session, tsub, pc,
                   tnode, result, calls, out>>

datachange_notification(h) ==
    /\ connected
    /\ Live(h)
    /\ tsub[h].node # NoNode
    /\ Len(notifs) < MaxNotifs
    /\ notifs' = Append(notifs, tsub[h].node)
    /\ latest_value' = Len(notifs) + 1
    /\ value_updated' = TRUE
    /\ rpc' = [r \in Readers |-> IF rpc[r] = "waiting" THEN "woken" ELSE rpc[r]]
    /\ UNCHANGED <<cfg, certs, browser, routing, subscription, subscribed_node, session, tsub, log, pc,
                   tnode, result, calls, out>>

\* ------------------------------------------------------------------- stream
\* f"data: {self.latest_value}\n\n": the item carries the value and nothing
\* else.
Item(v) == [data |-> v]

Yield(r) ==
    /\ out' = Append(out, [reader |-> r, item |-> Item(latest_value)])
    /\ rpc' = [rpc EXCEPT ![r] = "yielded"]

\* A consumer calls stream() and asks for the first item: wait() returns at
\* once when the event is set, and the item is yielded; otherwise the
\* generator is suspended in wait().  Each call makes a new generator; the
\* consumers are numbered in the order they call.
StreamCall(r) ==
    /\ rpc[r] = "idle"
    /\ \A q \in Readers : q < r => rpc[q] # "idle"
    /\ IF value_updated
       THEN Yield(r)
       ELSE /\ rpc' = [rpc EXCEPT ![r] = "waiting"]
            /\ UNCHANGED out
    /\ UNCHANGED <<cfg, certs, browser, routing, client, session, tsub, log, pc, tnode, result, calls,
                   notifs>>

\* The generator suspended in wait() runs again after set(): it yields
\* whatever latest_value holds by now.
StreamWake(r) ==
    /\ rpc[r] = "woken"
    /\ Yield(r)
    /\ UNCHANGED <<cfg, certs, browser, routing, client, session, tsub, log, pc, tnode, result, calls,
                   notifs>>

\* The consumer asks for the next item: value_updated.clear(), and the loop
\* is back in wait(), which suspends since the event was just cleared.
StreamResume(r) ==
    /\ rpc[r] = "yielded"
    /\ value_updated' = FALSE
    /\ rpc' = [rpc EXCEPT ![r] = "waiting"]
    /\ UNCHANGED <<cfg, certs, browser, routing, subscription, subscribed_node, latest_value, session,
                   tsub, log, pc, tnode, result, calls, out, notifs>>

\* ------------------------------------------------------------------- browse
\* The address spaces browsed: every tree of up to MaxNodes nodes under the
\* root (node k hangs under a node numbered below k), the children of a node
\* listed by the server in ascending or in descending node number.
RECURSIVE Ascending(_)
Ascending(S) ==
    IF S = {} THEN <<>>
    ELSE LET m == CHOOSE x \in S : \A y \in S : x <= y
         IN  <<m>> \o Ascending(S \ {m})

Reverse(s) == [i \in 1..Len(s) |-> s[Len(s) + 1 - i]]

Space(parent, n, descending) ==
    [k \in 0..n |->
        LET kids == Ascending({c \in 1..n : parent[c] = k})
        IN  IF descending THEN Reverse(kids) ELSE kids]

Spaces ==
    UNION { { Space(parent, n, d) :
                parent \in {q \in [1..n -> 0..n] : \A k \in 1..n : q[k] < k},
                d \in BOOLEAN } :
            n \in 0..MaxNodes }

\* The browse calls of an address space sp that the server may fail: the
\* listing of a node's children, the reading of a non-root node's name.
Faults(sp) ==
    {<<"get_children", n>> : n \in DOMAIN sp}
        \cup {<<"read_browse_name", n>> : n \in DOMAIN sp \ {Root}}

FaultSets(sp) == {F \in SUBSET Faults(sp) : Cardinality(F) <= MaxFaults}

\* Node k and the nodes above it, parent by parent, up to the root.
RECURSIVE Up(_, _)
Up(parent, k) == IF k = Root THEN {Root} ELSE {k} \cup Up(parent, parent[k])

\* Acyclic address spaces in which one node may be listed by two nodes: a
\* tree, or a tree in which one node also lists a node numbered after it
\* that it does not list yet.
Shared(parent, n) ==
    {Space(parent, n, FALSE)} \cup
    { [Space(parent, n, FALSE) EXCEPT ![e[1]] = Append(@, e[2])] :
        e \in {d \in (0..n) \X (1..n) : d[1] < d[2] /\ parent[d[2]] # d[1]} }

AcyclicSpaces ==
    UNION { UNION { Shared(parent, n) :
                      parent \in {q \in [1..n -> 0..n] :
                                    \A k \in 1..n : q[k] < k} } :
            n \in 0..MaxSharedNodes }

\* Node from of the address space sp lists node back as well, first or last
\* among its children.
BackEdge(sp, from, back, first) ==
    [sp EXCEPT ![from] = IF first THEN <<back>> \o @ ELSE Append(@, back)]

\* Address spaces whose hierarchy has a cycle: a tree in which one node also
\* lists itself or a node above it.
Cycles(parent, n) ==
    UNION { { BackEdge(Space(parent, n, FALSE), from, back, first) :
                back \in Up(parent, from), first \in BOOLEAN } :
            from \in 0..n }

CyclicSpaces ==
    UNION { UNION { Cycles(parent, n) :
                      parent \in {q \in [1..n -> 0..n] :
                                    \A k \in 1..n : q[k] < k} } :
            n \in 1..MaxCycleNodes }

\* A browse call on node n raises: the connection is closed, the node does
\* not exist, or the server fails that call.
Fails(op, n) == ~connected \/ n \notin DOMAIN space \/ <<op, n>> \in failing

\* node.nodeid.to_string() and str(await node.read_browse_name())
to_string(n) == <<"i", n>>
BrowseName(n) == <<"QualifiedName", n>>

ErrorLeaf_tagged(op, n) == [id |-> to_string(n), error |-> <<op, n>>]

\* {"error": str(e)}, e raised by the call op on node n
ErrorLeaf(op, n) == [error |-> <<op, n>>]

\* {"error": str(e)}, e the RecursionError of the interpreter
RecursionLeaf == [error |-> <<"maximum recursion depth exceeded">>]

Overflows_first(st) == Len(st) > 1

\* The innermost activation of the stack st, the body of browse_all counted,
\* is beyond the interpreter's recursion limit.
Overflows(st) == Len(st) > MaxDepth

\* One activation of _browse_node_recursive (or the body of browse_all, of
\* browse_children): its node, the children listed, the entries built so far.
Frame(n) == [node |-> n, kids |-> <<>>, done |-> <<>>]

\* The dict _browse_node_recursive returns from a frame whose comprehension
\* is exhausted.
NodeData(f) ==
    [id |-> to_string(f.node), browse_name |-> BrowseName(f.node),
     children |-> f.done]

\* The entry browse_children builds for a child.
ChildData(c) == [id |-> to_string(c), browse_name |-> BrowseName(c)]

Caller(st) == SubSeq(st, 1, Len(st) - 1)

\* The innermost activation returns v into its caller's comprehension.
ReturnTo(st, v) == [st EXCEPT ![Len(st)].done = Append(@, v)]

\* Activations whose comprehension is exhausted return, innermost first, up
\* to one that has a child left or to the body of browse_all.
RECURSIVE Unwind(_)
Unwind(st) ==
    LET top == st[Len(st)]
    IN  IF Len(st) = 1 \/ Len(top.done) < Len(top.kids) THEN st
        ELSE Unwind(ReturnTo(Caller(st), NodeData(top)))

Continue_backwards(st) ==
    LET u == Unwind(st)
        top == u[Len(u)]
    IN  IF Len(top.done) < Len(top.kids)
        THEN LET c == top.kids[Len(top.kids) - Len(top.done)]
             IN  /\ stack' = Append(u, Frame(c))
                 /\ blog' = Append(blog, <<"get_children", c>>)
                 /\ bpc' = "children"
                 /\ UNCHANGED bresult
        ELSE /\ stack' = <<>>
             /\ bresult' = [kind |-> "return", op |-> "browse_all",
                            value |-> top.done]
             /\ bpc' = "done"
             /\ UNCHANGED blog

\* The browse runs on from the stack st to its next await: the get_children
\* of the next child's activation, or to the return of browse_all.
Continue(st) ==
    LET u == Unwind(st)
        top == u[Len(u)]
    IN  IF Len(top.done) < Len(top.kids)
        THEN LET c == top.kids[Len(top.done) + 1]
             IN  /\ stack' = Append(u, Frame(c))
                 /\ blog' = Append(blog, <<"get_children", c>>)
                 /\ bpc' = "children"
                 /\ UNCHANGED bresult
        ELSE /\ stack' = <<>>
             /\ bresult' = [kind |-> "return", op |-> "browse_all",
                            value |-> top.done]
             /\ bpc' = "done"
             /\ UNCHANGED blog

\* browse_all() is called: root.get_children() is awaited.
BrowseAllCall ==
    /\ bpc = "idle"
    /\ stack' = <<Frame(Root)>>
    /\ blog' = <<<<"get_children", Root>>>>
    /\ bpc' = "root"
    /\ UNCHANGED <<cfg, certs, routing, client, session, tsub, log, pc, tnode, result, calls,
                   readers, notifs, server, bresult>>

BrowseAllRootDone_twice ==
    /\ bpc = "root"
    /\ IF Fails("get_children", Root)
       THEN /\ stack' = <<>>
            /\ bresult' = [kind |-> "raise", op |-> "browse_all",
                           error |-> <<"get_children", Root>>]
            /\ bpc' = "done"
            /\ UNCHANGED blog
       ELSE Continue(<<[stack[1] EXCEPT
                          !.kids = space[Root] \o space[Root]]>>)
    /\ UNCHANGED <<cfg, certs, routing, client, session, tsub, log, pc, tnode, result, calls,
                   readers, notifs, server>>

\* root.get_children() returns or raises; nothing in browse_all catches it.
BrowseAllRootDone ==
    /\ bpc = "root"
    /\ IF Fails("get_children", Root)
       THEN /\ stack' = <<>>
            /\ bresult' = [kind |-> "raise", op |-> "browse_all",
                           error |-> <<"get_children", Root>>]
            /\ bpc' = "done"
            /\ UNCHANGED blog
       ELSE Continue(<<[stack[1] EXCEPT !.kids = space[Root]]>>)
    /\ UNCHANGED <<cfg, certs, routing, client, session, tsub, log, pc, tnode, result, calls,
                   readers, notifs, server>>

BrowseNodeChildrenDone_uncaught ==
    /\ bpc = "children"
    /\ LET n == stack[Len(stack)].node
       IN  IF Fails("get_children", n)
           THEN IF Len(stack) > 2
                THEN Continue(ReturnTo(Caller(Caller(stack)),
                                       ErrorLeaf("get_children", n)))
                ELSE Continue(ReturnTo(Caller(stack),
                                       ErrorLeaf("get_children", n)))
           ELSE /\ stack' = [stack EXCEPT ![Len(stack)].kids = space[n]]
                /\ blog' = Append(blog, <<"read_browse_name", n>>)
                /\ bpc' = "name"
                /\ UNCHANGED bresult
    /\ UNCHANGED <<cfg, certs, routing, client, session, tsub, log, pc, tnode, result, calls,
                   readers, notifs, server>>

\* _browse_node_recursive: node.get_children() returns, and the dict display
\* goes on to await node.read_browse_name(); or it raises, and the except
\* clause returns the error dict to the caller's comprehension.  In an
\* activation beyond the recursion limit the call raises RecursionError, an
\* Exception like the transport's.
BrowseNodeChildrenDone ==
    /\ bpc = "children"
    /\ LET n == stack[Len(stack)].node
       IN  IF Overflows(stack)
           THEN Continue(ReturnTo(Caller(stack), RecursionLeaf))
           ELSE IF Fails("get_children", n)
           THEN Continue(ReturnTo(Caller(stack), ErrorLeaf("get_children", n)))
           ELSE /\ stack' = [stack EXCEPT ![Len(stack)].kids = space[n]]
                /\ blog' = Append(blog, <<"read_browse_name", n>>)
                /\ bpc' = "name"
                /\ UNCHANGED bresult
    /\ UNCHANGED <<cfg, certs, routing, client, session, tsub, log, pc, tnode, result, calls,
                   readers, notifs, server>>

BrowseNodeNameDone_retrying ==
    /\ bpc = "name"
    /\ LET n == stack[Len(stack)].node
           issued == {i \in DOMAIN blog : blog[i] = <<"read_browse_name", n>>}
       IN  IF Fails("read_browse_name", n)
           THEN IF Cardinality(issued) < 2
                THEN /\ blog' = Append(blog, <<"read_browse_name", n>>)
                     /\ UNCHANGED <<stack, bpc, bresult>>
                ELSE Continue(ReturnTo(Caller(stack),
                                       ErrorLeaf("read_browse_name", n)))
           ELSE Continue(stack)
    /\ UNCHANGED <<cfg, certs, routing, client, session, tsub, log, pc, tnode, result, calls,
                   readers, notifs, server>>

\* _browse_node_recursive: node.read_browse_name() returns, and the children
\* comprehension starts; or it raises, and the except clause returns the
\* error dict.
BrowseNodeNameDone ==
    /\ bpc = "name"
    /\ LET n == stack[Len(stack)].node
       IN  IF Fails("read_browse_name", n)
           THEN Continue(ReturnTo(Caller(stack),
                                  ErrorLeaf("read_browse_name", n)))
           ELSE Continue(stack)
    /\ UNCHANGED <<cfg, certs, routing, client, session, tsub, log, pc, tnode, result, calls,
                   readers, notifs, server>>

\* browse_children: the comprehension moves to its next child and awaits that
\* child's read_browse_name(), or is exhausted and the list is returned.
ListNext(f) ==
    IF Len(f.done) < Len(f.kids)
    THEN /\ stack' = <<f>>
         /\ blog' = Append(blog,
                           <<"read_browse_name", f.kids[Len(f.done) + 1]>>)
         /\ bpc' = "list_name"
         /\ UNCHANGED bresult
    ELSE /\ stack' = <<>>
         /\ bresult' = [kind |-> "return", op |-> "browse_children",
                        node |-> f.node, value |-> f.done]
         /\ bpc' = "done"
         /\ UNCHANGED blog

\* The exception of the call op on node n leaves browse_children(node_id).
ListRaise(node_id, op, n) ==
    /\ stack' = <<>>
    /\ bresult' = [kind |-> "raise", op |-> "browse_children",
                   node |-> node_id, error |-> <<op, n>>]
    /\ bpc' = "done"
    /\ UNCHANGED blog

\* browse_children(node_id) is called: node.get_children() is awaited.
BrowseChildrenCall(node_id) ==
    /\ bpc = "idle"
    /\ stack' = <<Frame(node_id)>>
    /\ blog' = <<<<"get_children", node_id>>>>
    /\ bpc' = "list"
    /\ UNCHANGED <<cfg, certs, routing, client, session, tsub, log, pc, tnode, result, calls,
                   readers, notifs, server, bresult>>

BrowseChildrenDone_swallowed ==
    /\ bpc = "list"
    /\ LET f == stack[1]
       IN  IF Fails("get_children", f.node)
           THEN ListNext(f)
           ELSE ListNext([f EXCEPT !.kids = space[f.node]])
    /\ UNCHANGED <<cfg, certs, routing, client, session, tsub, log, pc, tnode, result, calls,
                   readers, notifs, server>>

\* node.get_children() returns or raises; browse_children catches nothing.
BrowseChildrenDone ==
    /\ bpc = "list"
    /\ LET f == stack[1]
       IN  IF Fails("get_children", f.node)
           THEN ListRaise(f.node, "get_children", f.node)
           ELSE ListNext([f EXCEPT !.kids = space[f.node]])
    /\ UNCHANGED <<cfg, certs, routing, client, session, tsub, log, pc, tnode, result, calls,
                   readers, notifs, server>>

\* child.read_browse_name() returns, and the child's entry is built; or it
\* raises out of browse_children.
BrowseChildrenNameDone ==
    /\ bpc = "list_name"
    /\ LET f == stack[1]
           c == f.kids[Len(f.done) + 1]
       IN  IF Fails("read_browse_name", c)
           THEN ListRaise(f.node, "read_browse_name", c)
           ELSE ListNext([f EXCEPT !.done = Append(@, ChildData(c))])
    /\ UNCHANGED <<cfg, certs, routing, client, session, tsub, log, pc, tnode, result, calls,
                   readers, notifs, server>>

\* The node ids a caller passes to browse_children: the nodes a server can
\* have, and one that no server has.
NodeIds == 0..(MaxNodes + 1)

\* ------------------------------------------------------- routers/opcua.py
\* The router keeps its state in module globals (router.client,
\* router.subscription, router.latest_value, router.value_updated,
\* router.opcua_config).  subscribe() spawns subscribe_to_node as a task and
\* returns; the task makes a new Client and runs against it.  A transport
\* call is issued on the object the global names when the call is made;
\* rtasks[i].target and rhandler.target are that object for the call in
\* flight; rtasks[i].reported is what subscribe() answered when it spawned
\* task i.  One request is served at a time, the spawned tasks interleave.

\* The node_id arguments of subscribe(): the node ids, and the empty string.
NodeIdArgs == Nodes \cup {""}

ROpen(k) == k \in DOMAIN rtransport.conns /\ rtransport.conns[k] = "open"
RLive(h) ==
    /\ h \in DOMAIN rtransport.subs
    /\ rtransport.subs[h].state = "live"
    /\ ROpen(rtransport.subs[h].conn)

\* How a round trip on Client k, or on subscription h, can end.
ROutcomes(k) == IF ROpen(k) THEN {TRUE, FALSE} ELSE {FALSE}
RHandleOutcomes(h) == IF RLive(h) THEN {TRUE, FALSE} ELSE {FALSE}

\* A request is accepted: the one before it has been answered.
Request ==
    /\ rhandler.pc = "idle"
    /\ rhandler.calls < MaxRequests

Respond(r) ==
    rhandler' = [rhandler EXCEPT !.pc = "idle", !.response = r,
                                 !.calls = @ + 1]

\* Task i moves to pc p, its await issued on target x.
TaskAt(i, p, x) == rtasks' = [rtasks EXCEPT ![i].pc = p, ![i].target = x]

\* subscribe(node_id): the task is spawned and success is reported at once.
subscribe(node_id) ==
    /\ Request
    /\ IF node_id = ""
       THEN /\ Respond("Node ID is required")
            /\ UNCHANGED rtasks
       ELSE /\ rtasks' = Append(rtasks,
                               [pc |-> "spawned", target |-> 0,
                                node_id |-> node_id,
                                reported |-> "Subscription started"])
            /\ Respond("Subscription started")
    /\ UNCHANGED <<vars_client, certs, browser, router, rtransport>>

\* subscribe_to_node starts: client = Client(url), then the security string
\* or, without a policy, the credentials and `await client.connect()`.
SubscribeTaskStart(i) ==
    /\ rtasks[i].pc = "spawned"
    /\ LET k == Len(rtransport.conns) + 1 IN
       /\ rtransport' = [rtransport EXCEPT !.conns = Append(@, "new")]
       /\ router' = [router EXCEPT !.client = k]
       /\ IF router.opcua_config.security_policy # "None"
          THEN TaskAt(i, "security", k)
          ELSE TaskAt(i, "connect", k)
    /\ UNCHANGED <<vars_client, certs, browser, rhandler>>

\* set_security_string returns, and `await client.connect()` is issued on
\* the Client the global names now; or it raises into the outer except.
SubscribeTaskSecurityDone(i) ==
    /\ rtasks[i].pc = "security"
    /\ \E ok \in {TRUE, FALSE} :
         IF ok THEN TaskAt(i, "connect", router.client)
               ELSE TaskAt(i, "error", 0)
    /\ UNCHANGED <<vars_client, certs, browser, router, rtransport, rhandler>>

\* connect() returns, and time_node.read_value() is awaited; or it raises
\* into the outer except, which logs.
SubscribeTaskConnectDone(i) ==
    /\ rtasks[i].pc = "connect"
    /\ \E ok \in {TRUE, FALSE} :
         IF ok
         THEN /\ rtransport' = [rtransport EXCEPT
                                  !.conns[rtasks[i].target] = "open"]
              /\ TaskAt(i, "read", router.client)
         ELSE /\ TaskAt(i, "error", 0)
              /\ UNCHANGED rtransport
    /\ UNCHANGED <<vars_client, certs, browser, router, rhandler>>

\* read_value() returns, and create_subscription is awaited; or it raises
\* into the inner except, which logs and returns.
SubscribeTaskReadDone(i) ==
    /\ rtasks[i].pc = "read"
    /\ \E ok \in ROutcomes(rtasks[i].target) :
         IF ok
         THEN /\ router' = [router EXCEPT !.latest_value = InitialValue]
              /\ TaskAt(i, "create", router.client)
         ELSE /\ TaskAt(i, "unreadable", 0)
              /\ UNCHANGED router
    /\ UNCHANGED <<vars_client, certs, browser, rtransport, rhandler>>

\* create_subscription returns into the global, and subscribe_data_change is
\* awaited on it; or it raises into the outer except.
SubscribeTaskCreateDone(i) ==
    /\ rtasks[i].pc = "create"
    /\ \E ok \in ROutcomes(rtasks[i].target) :
         IF ok
         THEN LET h == Len(rtransport.subs) + 1 IN
              /\ rtransport' = [rtransport EXCEPT !.subs =
                    Append(@, [conn |-> rtasks[i].target, node |-> NoNode,
                               state |-> "live"])]
              /\ router' = [router EXCEPT !.subscription = h]
              /\ TaskAt(i, "monitor", h)
         ELSE /\ TaskAt(i, "error", 0)
              /\ UNCHANGED <<router, rtransport>>
    /\ UNCHANGED <<vars_client, certs, browser, rhandler>>

\* subscribe_data_change returns and the task ends, or it raises into the
\* outer except.
SubscribeTaskMonitorDone(i) ==
    /\ rtasks[i].pc = "monitor"
    /\ \E ok \in RHandleOutcomes(rtasks[i].target) :
         IF ok
         THEN /\ rtransport' = [rtransport EXCEPT
                    !.subs[rtasks[i].target].node = rtasks[i].node_id]
              /\ TaskAt(i, "subscribed", 0)
         ELSE /\ TaskAt(i, "error", 0)
              /\ UNCHANGED rtransport
    /\ UNCHANGED <<vars_client, certs, browser, router, rhandler>>

\* SubHandler.datachange_notification: the transport delivers a change on a
\* registered subscription of any Client still open; the handler stores the
\* value in the module global and sets the module event.
SubHandlerNotification(h) ==
    /\ RLive(h)
    /\ rtransport.subs[h].node # NoNode
    /\ \E val \in 1..MaxNotifs :
         router' = [router EXCEPT !.latest_value = val,
                                  !.value_updated = TRUE]
    /\ UNCHANGED <<vars_client, certs, browser, rtransport, rtasks, rhandler>>

\* unsubscribe(): with both globals set, subscription.delete() is awaited;
\* otherwise the request is answered at once.
UnsubscribeCall ==
    /\ Request
    /\ IF router.client # 0 /\ router.subscription # 0
       THEN rhandler' = [rhandler EXCEPT
                !.pc = "delete", !.target = router.subscription,
                !.log = <<Call("delete", router.subscription, NoNode)>>]
       ELSE /\ rhandler' = [rhandler EXCEPT
                !.log = <<>>, !.response = "No active subscription",
                !.calls = @ + 1]
    /\ UNCHANGED <<vars_client, certs, browser, router, rtransport, rtasks>>

\* subscription.delete() returns, and client.disconnect() is awaited on the
\* Client the global names now; or it raises out of unsubscribe.
UnsubscribeDeleteDone ==
    /\ rhandler.pc = "delete"
    /\ \E ok \in RHandleOutcomes(rhandler.target) :
         IF ok
         THEN /\ rtransport' = [rtransport EXCEPT
                    !.subs[rhandler.target].state = "deleted"]
              /\ rhandler' = [rhandler EXCEPT
                    !.pc = "disconnect", !.target = router.client,
                    !.log = Append(@, Call("disconnect", router.client,
                                           NoNode))]
         ELSE /\ Respond("DeleteFailed")
              /\ UNCHANGED rtransport
    /\ UNCHANGED <<vars_client, certs, browser, router, rtasks>>

\* client.disconnect() returns: the globals' value and event are reset, the
\* globals client and subscription are left as they are.
UnsubscribeDisconnectDone ==
    /\ rhandler.pc = "disconnect"
    /\ rtransport' = [rtransport EXCEPT
          !.conns[rhandler.target] = "closed",
          !.subs = [h \in DOMAIN @ |->
                      IF @[h].conn = rhandler.target /\ @[h].state = "live"
                      THEN [@[h] EXCEPT !.state = "closed"] ELSE @[h]]]
    /\ router' = [router EXCEPT !.latest_value = NoneValue,
                                !.value_updated = FALSE]
    /\ Respond("Unsubscribed")
    /\ UNCHANGED <<vars_client, certs, browser, rtasks>>

\* ------------------------------------------------------------ router setup
\* The policy and mode names a caller can give.
SecurityPolicies == {"None", "Basic256Sha256"}
MessageSecurityModes == {"None", "Sign", "SignAndEncrypt"}

\* A server_url is its scheme prefix and the rest.
ServerUrls == {<<"opc.tcp://", "localhost:50000/">>, <<"localhost:50000">>}

\* OPCUASetupRequest objects as a caller fills them.
SetupRequests ==
    [server_url : ServerUrls, security_policy : SecurityPolicies,
     message_security_mode : MessageSecurityModes,
     username : BOOLEAN, password : BOOLEAN]

\* str.startswith
startswith(str, prefix) == Len(str) >= 1 /\ str[1] = prefix

\* The OPCUAConfig the secure branch is written to build.
SecureConfig(config) ==
    [server_url |-> config.server_url,
     security_policy |-> config.security_policy,
     message_security_mode |-> config.message_security_mode,
     username |-> config.username, password |-> config.password,
     certificate_path |-> TRUE, private_key_path |-> TRUE]

setup_opcua_unchecked(config) ==
    /\ Request
    /\ IF config.security_policy # "None"
       THEN /\ Respond("TypeError")
            /\ UNCHANGED router
       ELSE /\ router' = [router EXCEPT !.opcua_config = config]
            /\ Respond("AttributeError")
    /\ UNCHANGED <<vars_client, certs, browser, rtransport, rtasks>>

\* setup_opcua(config): an url without the prefix is answered with the error
\* dict.  With a policy, OPCUAConfig(server_url=..., ...) is called: the
\* class has no __init__ and the call raises TypeError before the global is
\* assigned.  Without one the global is bound to the request, and
\* opcua_config.dict() then raises AttributeError.
setup_opcua(config) ==
    /\ Request
    /\ IF ~startswith(config.server_url, "opc.tcp://")
       THEN /\ Respond("Invalid server_url")
            /\ UNCHANGED router
       ELSE IF config.security_policy # "None"
       THEN /\ Respond("TypeError")
            /\ UNCHANGED router
       ELSE /\ router' = [router EXCEPT !.opcua_config = config]
            /\ Respond("AttributeError")
    /\ UNCHANGED <<vars_client, certs, browser, rtransport, rtasks>>

\* ----------------------------------------------------------- router browse
\* browse_nodes and browse_children of the router: each makes a Client of its
\* own, connects, browses, and disconnects in its finally clause.  The
\* handler's pending return value is kept in bresult while the finally
\* clause runs; blog is the transport calls the handler issued.

\* The call op on node n of Client k raises.
RFails(k, op, n) == ~ROpen(k) \/ n \notin DOMAIN space \/ <<op, n>> \in failing

\* The handler has its return value v: the finally clause awaits
\* client.disconnect().
RFinally(v) ==
    /\ stack' = <<>>
    /\ bresult' = v
    /\ blog' = Append(blog, <<"disconnect", rhandler.target>>)
    /\ rhandler' = [rhandler EXCEPT !.pc = "b_disconnect"]

\* except Exception as e: return {"error": str(e)}, e raised by the call c
RExcept(c) ==
    RFinally([kind |-> "error", op |-> bresult.op, node |-> bresult.node,
              error |-> c])

\* return {"nodes": node_data}
RReturn(list) ==
    RFinally([kind |-> "return", op |-> bresult.op, node |-> bresult.node,
              value |-> list])

\* The handler op starts: client = Client(url), then the security string
\* or, without a policy, the credentials and `await client.connect()`.
RBrowse(op, node_id) ==
    /\ Request
    /\ LET k == Len(rtransport.conns) + 1 IN
       /\ rtransport' = [rtransport EXCEPT !.conns = Append(@, "new")]
       /\ IF router.opcua_config.security_policy # "None"
          THEN /\ blog' = <<<<"set_security_string", k>>>>
               /\ rhandler' = [rhandler EXCEPT !.pc = "b_security",
                                               !.target = k]
          ELSE /\ blog' = <<<<"connect", k>>>>
               /\ rhandler' = [rhandler EXCEPT !.pc = "b_connect",
                                               !.target = k]
    /\ stack' = <<>>
    /\ bresult' = [kind |-> "pending", op |-> op, node |-> node_id]
    /\ UNCHANGED <<vars_client, certs, server, bpc, router, rtasks>>

browse_nodes == RBrowse("browse_nodes", Root)

browse_children(node_id) == RBrowse("browse_children", node_id)

\* set_security_string returns, and `await client.connect()` is issued; or
\* it raises into the except clause.
RouterBrowseSecurityDone ==
    /\ rhandler.pc = "b_security"
    /\ \E ok \in {TRUE, FALSE} :
         IF ok
         THEN /\ blog' = Append(blog, <<"connect", rhandler.target>>)
              /\ rhandler' = [rhandler EXCEPT !.pc = "b_connect"]
              /\ UNCHANGED <<stack, bresult>>
         ELSE RExcept(<<"set_security_string", rhandler.target>>)
    /\ UNCHANGED <<vars_client, certs, server, bpc, router, rtasks, rtransport>>

\* connect() returns, and get_children() is awaited on the root
\* (browse_nodes) or on client.get_node(node_id) (browse_children); or it
\* raises into the except clause.
RouterBrowseConnectDone ==
    /\ rhandler.pc = "b_connect"
    /\ \E ok \in {TRUE, FALSE} :
         IF ok
         THEN /\ rtransport' = [rtransport EXCEPT
                                  !.conns[rhandler.target] = "open"]
              /\ stack' = <<Frame(bresult.node)>>
              /\ blog' = Append(blog, <<"get_children", bresult.node>>)
              /\ rhandler' = [rhandler EXCEPT !.pc =
                    IF bresult.op = "browse_nodes" THEN "b_root"
                                                  ELSE "b_list"]
              /\ UNCHANGED bresult
         ELSE /\ RExcept(<<"connect", rhandler.target>>)
              /\ UNCHANGED rtransport
    /\ UNCHANGED <<vars_client, certs, server, bpc, router, rtasks>>

\* browse_nodes runs on from the stack st to its next await: the
\* get_children of the next child's browse_node_recursively, or to its
\* return.
RContinue(st) ==
    LET u == Unwind(st)
        top == u[Len(u)]
    IN  IF Len(top.done) < Len(top.kids)
        THEN LET c == top.kids[Len(top.done) + 1]
             IN  /\ stack' = Append(u, Frame(c))
                 /\ blog' = Append(blog, <<"get_children", c>>)
                 /\ rhandler' = [rhandler EXCEPT !.pc = "b_children"]
                 /\ UNCHANGED bresult
        ELSE RReturn(top.done)

\* browse_nodes: root.get_children() returns, or raises into the except
\* clause of browse_nodes.
BrowseNodesRootDone ==
    /\ rhandler.pc = "b_root"
    /\ IF RFails(rhandler.target, "get_children", Root)
       THEN RExcept(<<"get_children", Root>>)
       ELSE RContinue(<<[stack[1] EXCEPT !.kids = space[Root]]>>)
    /\ UNCHANGED <<vars_client, certs, server, bpc, router, rtasks, rtransport>>

\* browse_node_recursively: node.get_children() returns, and
\* node.read_browse_name() is awaited; or it raises, and the except clause
\* returns the error dict to the caller's comprehension.
BrowseNodeRecursivelyChildrenDone ==
    /\ rhandler.pc = "b_children"
    /\ LET n == stack[Len(stack)].node
       IN  IF Overflows(stack)
           THEN RContinue(ReturnTo(Caller(stack), RecursionLeaf))
           ELSE IF RFails(rhandler.target, "get_children", n)
           THEN RContinue(ReturnTo(Caller(stack),
                                   ErrorLeaf("get_children", n)))
           ELSE /\ stack' = [stack EXCEPT ![Len(stack)].kids = space[n]]
                /\ blog' = Append(blog, <<"read_browse_name", n>>)
                /\ rhandler' = [rhandler EXCEPT !.pc = "b_name"]
                /\ UNCHANGED bresult
    /\ UNCHANGED <<vars_client, certs, server, bpc, router, rtasks, rtransport>>

BrowseNodeRecursivelyNameDone_uncaught ==
    /\ rhandler.pc = "b_name"
    /\ LET n == stack[Len(stack)].node
       IN  IF RFails(rhandler.target, "read_browse_name", n)
           THEN RExcept(<<"read_browse_name", n>>)
           ELSE RContinue(stack)
    /\ UNCHANGED <<vars_client, certs, server, bpc, router, rtasks, rtransport>>

\* browse_node_recursively: node.read_browse_name() returns, and the
\* children comprehension starts; or it raises, and the except clause
\* returns the error dict.
BrowseNodeRecursivelyNameDone ==
    /\ rhandler.pc = "b_name"
    /\ LET n == stack[Len(stack)].node
       IN  IF RFails(rhandler.target, "read_browse_name", n)
           THEN RContinue(ReturnTo(Caller(stack),
                                   ErrorLeaf("read_browse_name", n)))
           ELSE RContinue(stack)
    /\ UNCHANGED <<vars_client, certs, server, bpc, router, rtasks, rtransport>>

\* browse_children: the comprehension moves to its next child and awaits
\* that child's read_browse_name(), or is exhausted and the list returned.
RListNext(f) ==
    IF Len(f.done) < Len(f.kids)
    THEN /\ stack' = <<f>>
         /\ blog' = Append(blog,
                           <<"read_browse_name", f.kids[Len(f.done) + 1]>>)
         /\ rhandler' = [rhandler EXCEPT !.pc = "b_list_name"]
         /\ UNCHANGED bresult
    ELSE RReturn(f.done)

\* browse_children: node.get_children() returns, or raises into the except
\* clause.
RouterChildrenListDone ==
    /\ rhandler.pc = "b_list"
    /\ LET f == stack[1]
       IN  IF RFails(rhandler.target, "get_children", f.node)
           THEN RExcept(<<"get_children", f.node>>)
           ELSE RListNext([f EXCEPT !.kids = space[f.node]])
    /\ UNCHANGED <<vars_client, certs, server, bpc, router, rtasks, rtransport>>

\* browse_children: child.read_browse_name() returns, and the child's entry
\* is built; or it raises into the except clause, the entries built so far
\* dropped.
RouterChildrenNameDone ==
    /\ rhandler.pc = "b_list_name"
    /\ LET f == stack[1]
           c == f.kids[Len(f.done) + 1]
       IN  IF RFails(rhandler.target, "read_browse_name", c)
           THEN RExcept(<<"read_browse_name", c>>)
           ELSE RListNext([f EXCEPT !.done = Append(@, ChildData(c))])
    /\ UNCHANGED <<vars_client, certs, server, bpc, router, rtasks, rtransport>>

\* finally: client.disconnect() returns, and the handler returns the value
\* it had; or it raises out of the finally clause, in place of that value.
RouterBrowseDisconnectDone ==
    /\ rhandler.pc = "b_disconnect"
    /\ \E ok \in {TRUE, FALSE} :
         IF ok
         THEN /\ rtransport' = [rtransport EXCEPT
                    !.conns[rhandler.target] = "closed"]
              /\ Respond(bresult.kind)
              /\ UNCHANGED bresult
         ELSE /\ bresult' = [kind |-> "raise", op |-> bresult.op,
                             node |-> bresult.node,
                             error |-> <<"disconnect", rhandler.target>>]
              /\ Respond("raise")
              /\ UNCHANGED rtransport
    /\ UNCHANGED <<stack, blog>>
    /\ UNCHANGED <<vars_client, certs, server, bpc, router, rtasks>>

\* ------------------------------------------------- certificate management
\* CertificateManager (certificate_manager.py, and generate.py with the
\* subject fixed): generate_certificate is synchronous, so one call is one
\* step.  A file's content is a number: 0 absent, 1 what was there before
\* the manager was made, and call number g writes g + 1.

\* __init__: the three paths are fixed and certs_dir is made if missing; what
\* an existing certs_dir holds is the caller's.
CertificateManager ==
    /\ files \in [client_cert : {0, 1}, client_key : {0, 1},
                  cert_config : {0, 1}]
    /\ generated = [kind |-> "none"]
    /\ generations = 0

\* os.path.exists(path)
exists(f) == files[f] # 0

\* Where a generation can stop: each step but the last may raise.
Steps == <<"_write_openssl_config", "genpkey", "req", "remove", "return">>

\* The files after the steps before step number k have run for call g.
Ran(k, g) ==
    [client_cert |-> IF k > 3 THEN g + 1 ELSE files.client_cert,
     client_key  |-> IF k > 2 THEN g + 1 ELSE files.client_key,
     cert_config |-> IF k > 4 THEN 0
                     ELSE IF k > 1 THEN g + 1 ELSE files.cert_config]

generate_certificate_either(overwrite) ==
    /\ generations < MaxGenerations
    /\ generations' = generations + 1
    /\ IF (exists("client_cert") \/ exists("client_key")) /\ ~overwrite
       THEN /\ generated' = [kind |-> "return", overwrite |-> overwrite,
                             message |-> "skipping generation",
                             certificate |-> "client_cert"]
            /\ UNCHANGED files
       ELSE \E k \in DOMAIN Steps :
              /\ files' = Ran(k, generations')
              /\ generated' =
                    IF Steps[k] = "return"
                    THEN [kind |-> "return", overwrite |-> overwrite,
                          message |-> "generated successfully",
                          certificate |-> "client_cert"]
                    ELSE [kind |-> "raise", overwrite |-> overwrite,
                          error |-> "RuntimeError", step |-> Steps[k]]
    /\ UNCHANGED <<vars_client, browser, routing>>

\* generate_certificate(overwrite): with both files there and no overwrite
\* it returns at once; otherwise it writes the config, makes the key, makes
\* the certificate, removes the config and returns, and a step that raises
\* ends the call with RuntimeError, the steps before it done.
generate_certificate(overwrite) ==
    /\ generations < MaxGenerations
    /\ generations' = generations + 1
    /\ IF exists("client_cert") /\ exists("client_key") /\ ~overwrite
       THEN /\ generated' = [kind |-> "return", overwrite |-> overwrite,
                             message |-> "skipping generation",
                             certificate |-> "client_cert"]
            /\ UNCHANGED files
       ELSE \E k \in DOMAIN Steps :
              /\ files' = Ran(k, generations')
              /\ generated' =
                    IF Steps[k] = "return"
                    THEN [kind |-> "return", overwrite |-> overwrite,
                          message |-> "generated successfully",
                          certificate |-> "client_cert"]
                    ELSE [kind |-> "raise", overwrite |-> overwrite,
                          error |-> "RuntimeError", step |-> Steps[k]]
    /\ UNCHANGED <<vars_client, browser, routing>>

\* ------------------------------------------------------------ specifications
\* A caller starts an API call.
Calls ==
    \/ \E t \in Tasks : ConnectCall(t)
    \/ \E t \in Tasks : DisconnectCall(t)
    \/ \E t \in Tasks, n \in Nodes : SubscribeCall(t, n)

\* An await of a running call completes and the call runs on.
Completions ==
    \/ \E t \in Tasks : ConnectSecurityDone(t)
    \/ \E t \in Tasks : ConnectDone(t)
    \/ \E t \in Tasks : DisconnectDeleteDone(t)
    \/ \E t \in Tasks : DisconnectDone(t)
    \/ \E t \in Tasks : SubscribeReadDone(t)
    \/ \E t \in Tasks : SubscribeCreateDone(t)
    \/ \E t \in Tasks : SubscribeMonitorDone(t)

Lifecycle == Calls \/ Completions

\* The client with the transport's notifications and one consumer of stream().
Next ==
    \/ Lifecycle
    \/ \E h \in DOMAIN tsub : datachange_notification(h)
    \/ StreamCall(Consumer)
    \/ StreamWake(Consumer)
    \/ StreamResume(Consumer)

\* The same with every reader calling stream() on the one client, over runs
\* of at most MaxReaderCalls API calls.
NextReaders ==
    \/ calls < MaxReaderCalls /\ Calls
    \/ Completions
    \/ \E h \in DOMAIN tsub : datachange_notification(h)
    \/ \E r \in Readers : StreamCall(r)
    \/ \E r \in Readers : StreamWake(r)
    \/ \E r \in Readers : StreamResume(r)

Spec == Init /\ [][Next]_vars

\* Connection lifecycle and subscriptions alone: no notification is delivered
\* and nobody reads the stream.
SpecLifecycle == Init /\ [][Lifecycle]_vars

SpecReaders == Init /\ [][NextReaders]_vars

\* The lifecycle calls with the transport's notifications, nobody reading.
NextNotify ==
    \/ calls < MaxReaderCalls /\ Calls
    \/ Completions
    \/ \E h \in DOMAIN tsub : datachange_notification(h)

SpecNotify == Init /\ [][NextNotify]_vars

\* One connect, one subscribe_to_node after it, the notifications of that
\* subscription and one consumer reading stream(): no disconnect, no second
\* subscription.
NextStream ==
    \/ calls = 0 /\ \E t \in Tasks : ConnectCall(t)
    \/ \E t \in Tasks : ConnectSecurityDone(t) \/ ConnectDone(t)
    \/ calls = 1 /\ connected /\ \E t \in Tasks, n \in Nodes : SubscribeCall(t, n)
    \/ \E t \in Tasks : SubscribeReadDone(t)
    \/ \E t \in Tasks : SubscribeCreateDone(t)
    \/ \E t \in Tasks : SubscribeMonitorDone(t)
    \/ \E h \in DOMAIN tsub : datachange_notification(h)
    \/ StreamCall(Consumer)
    \/ StreamWake(Consumer)
    \/ StreamResume(Consumer)

SpecStream == Init /\ [][NextStream]_vars

\* The event loop runs a generator whose wait() has returned, and the consumer
\* keeps asking for the next item; callers and the transport owe nothing.
SpecFair ==
    /\ Spec
    /\ WF_vars(StreamWake(Consumer))
    /\ WF_vars(StreamResume(Consumer))


\* ---- browsing a session: one connect() call, and one browse call made at
\* any moment before, during or after it.
InitBrowse ==
    /\ \E c \in Configs : Constructed(c)
    /\ space \in Spaces
    /\ failing \in FaultSets(space)
    /\ Unbrowsed
    /\ Unprovisioned
    /\ Imported(OPCUAConfig)

NextBrowse ==
    \/ calls = 0 /\ \E t \in Tasks : ConnectCall(t)
    \/ \E t \in Tasks : ConnectSecurityDone(t) \/ ConnectDone(t)
    \/ BrowseAllCall
    \/ BrowseAllRootDone
    \/ BrowseNodeChildrenDone
    \/ BrowseNodeNameDone
    \/ \E n \in NodeIds : BrowseChildrenCall(n)
    \/ BrowseChildrenDone
    \/ BrowseChildrenNameDone

SpecBrowse == InitBrowse /\ [][NextBrowse]_vars

\* The same calls against a server whose hierarchy has a cycle.
InitCyclic ==
    /\ \E c \in Configs : Constructed(c)
    /\ space \in CyclicSpaces
    /\ failing \in FaultSets(space)
    /\ Unbrowsed
    /\ Unprovisioned
    /\ Imported(OPCUAConfig)

SpecCyclic == InitCyclic /\ [][NextBrowse]_vars

\* The same calls against an acyclic address space, a node of which may be
\* reached along two paths.  An await of the browse completes, by return or
\* by exception: the event loop resumes the coroutine.
InitAcyclic ==
    /\ \E c \in Configs : Constructed(c)
    /\ space \in AcyclicSpaces
    /\ failing \in FaultSets(space)
    /\ Unbrowsed
    /\ Unprovisioned
    /\ Imported(OPCUAConfig)

SpecAcyclic ==
    /\ InitAcyclic /\ [][NextBrowse]_vars
    /\ WF_vars(BrowseAllRootDone)
    /\ WF_vars(BrowseNodeChildrenDone)
    /\ WF_vars(BrowseNodeNameDone)

\* ---- the router serving subscribe and unsubscribe requests, under the
\* default configuration or the one a setup request installed.
InitRouter ==
    /\ Constructed(OPCUAConfig)
    /\ Unserved
    /\ Unbrowsed
    /\ Unprovisioned
    /\ \E c \in Configs : Imported(c)

NextRouter ==
    \/ \E node_id \in NodeIdArgs : subscribe(node_id)
    \/ \E i \in DOMAIN rtasks : SubscribeTaskStart(i)
    \/ \E i \in DOMAIN rtasks : SubscribeTaskSecurityDone(i)
    \/ \E i \in DOMAIN rtasks : SubscribeTaskConnectDone(i)
    \/ \E i \in DOMAIN rtasks : SubscribeTaskReadDone(i)
    \/ \E i \in DOMAIN rtasks : SubscribeTaskCreateDone(i)
    \/ \E i \in DOMAIN rtasks : SubscribeTaskMonitorDone(i)
    \/ UnsubscribeCall
    \/ UnsubscribeDeleteDone
    \/ UnsubscribeDisconnectDone
    \/ \E h \in DOMAIN rtransport.subs : SubHandlerNotification(h)

SpecRouter == InitRouter /\ [][NextRouter]_vars

\* ---- connect() under every combination of the constructor's security
\* arguments: the client is constructed with any of them and connect() is
\* called on it.

SecurityConfigs ==
    [security_policy : SecurityPolicies,
     message_security_mode : MessageSecurityModes,
     certificate_path : BOOLEAN, private_key_path : BOOLEAN,
     username : BOOLEAN, password : BOOLEAN]

InitSecurity ==
    /\ \E c \in SecurityConfigs : Constructed(c)
    /\ Unserved
    /\ Unbrowsed
    /\ Unprovisioned
    /\ Imported(OPCUAConfig)

NextSecurity ==
    \/ \E t \in Tasks : ConnectCall(t)
    \/ \E t \in Tasks : ConnectSecurityDone(t)
    \/ \E t \in Tasks : ConnectDone(t)

SpecSecurity == InitSecurity /\ [][NextSecurity]_vars

\* ---- the client's lifecycle calls together with get_security_policies().
PoliciesPcs == {"policies_security", "policies_connect", "policies_endpoints",
                "policies_delete", "policies_disconnect"}

NextPolicies ==
    \/ Lifecycle
    \/ \E t \in Tasks : GetSecurityPoliciesCall(t)
    \/ \E t \in Tasks : GetSecurityPoliciesSecurityDone(t)
    \/ \E t \in Tasks : GetSecurityPoliciesConnectDone(t)
    \/ \E t \in Tasks : GetSecurityPoliciesEndpointsDone(t)
    \/ \E t \in Tasks : GetSecurityPoliciesDeleteDone(t)
    \/ \E t \in Tasks : GetSecurityPoliciesDisconnectDone(t)

SpecPolicies == Init /\ [][NextPolicies]_vars

\* One CertificateManager on a certs_dir, generate_certificate called on it.
InitCertificates ==
    /\ Constructed(OPCUAConfig)
    /\ Unserved
    /\ Unbrowsed
    /\ Imported(OPCUAConfig)
    /\ CertificateManager

NextCertificates == \E overwrite \in BOOLEAN : generate_certificate(overwrite)

SpecCertificates == InitCertificates /\ [][NextCertificates]_vars

\* The router configured by setup_opcua requests, and subscribe requests
\* whose tasks start on the configuration then in force.
NextSetup ==
    \/ \E config \in SetupRequests : setup_opcua(config)
    \/ \E node_id \in NodeIdArgs : subscribe(node_id)
    \/ \E i \in DOMAIN rtasks : SubscribeTaskStart(i)

SpecSetup == InitRouter /\ [][NextSetup]_vars

\* One browse request to the router, against a server with an address space
\* and the calls it fails.
InitRouterBrowse ==
    /\ Constructed(OPCUAConfig)
    /\ space \in Spaces
    /\ failing \in FaultSets(space)
    /\ Unbrowsed
    /\ Unprovisioned
    /\ \E c \in Configs : Imported(c)

NextRouterBrowse ==
    \/ rhandler.calls = 0 /\ browse_nodes
    \/ rhandler.calls = 0 /\ \E node_id \in NodeIds : browse_children(node_id)
    \/ RouterBrowseSecurityDone
    \/ RouterBrowseConnectDone
    \/ BrowseNodesRootDone
    \/ BrowseNodeRecursivelyChildrenDone
    \/ BrowseNodeRecursivelyNameDone
    \/ RouterChildrenListDone
    \/ RouterChildrenNameDone
    \/ RouterBrowseDisconnectDone

SpecRouterBrowse == InitRouterBrowse /\ [][NextRouterBrowse]_vars

\* ------------------------------------------------------- session vocabulary
\* The lifecycle states of the specification, read off the client: the code
\* keeps no state field of its own.
ConnectPcs    == {"connect_security", "connect"}
DisconnectPcs == {"disconnect_delete", "disconnect"}

Connecting    == \E t \in Tasks : pc[t] \in ConnectPcs
Disconnecting == \E t \in Tasks : pc[t] \in DisconnectPcs

SessionDisconnected == ~connected /\ ~Connecting /\ ~Disconnecting

\* A call that is refused on entry: it ends at once with the error e and
\* nothing is issued to the transport.
Rejected(t, e) ==
    /\ pc'[t] = "idle"
    /\ result'[t] = e
    /\ log'[t] = <<>>
    /\ UNCHANGED <<session, tsub>>

\* The delete calls for handle h among the transport calls in l.
Deletes(l, h) == {i \in DOMAIN l : l[i].op = "delete" /\ l[i].h = h}

\* The subscriptions a completed subscribe_to_node left on the transport.
Registered(h) == Live(h) /\ tsub[h].node # NoNode

\* ------------------------------------------------------------------- claims
\* C3: connect() called on a session that is not Disconnected (it is
\* connected already, or another connect is still in flight) fails with
\* InvalidState, makes no transport call and leaves the session unchanged.
C3_ConnectRejectedUnlessDisconnected ==
    [][\A t \in Tasks :
         ((connected \/ Connecting) /\ ConnectCall(t))
            => Rejected(t, "InvalidState")]_vars

\* C4: disconnect() called on a session that is already Disconnected is a
\* no-op that returns success: no subscription deletion and no transport
\* disconnect is issued.
C4_DisconnectIdempotent ==
    [][\A t \in Tasks :
         (SessionDisconnected /\ DisconnectCall(t)) => Rejected(t, "ok")]_vars

\* C5: when disconnect() issues the transport disconnect, every subscription
\* registered on the session has had exactly one delete attempted by this
\* disconnect() before it (stated for a caller that awaits each call before
\* it makes the next: no second task ever ran).
C5_DisconnectUnregistersAll ==
    [][\A t \in Tasks :
         (/\ pc[t] # "disconnect"
          /\ pc'[t] = "disconnect"
          /\ \A u \in Tasks \ {t} : log[u] = <<>>)
            => \A h \in DOMAIN tsub :
                 Registered(h) => Cardinality(Deletes(log'[t], h)) = 1]_vars

\* C6: a subscription delete that fails during disconnect() is not
\* propagated: whatever the outcome of the delete, disconnect() goes on to
\* the transport disconnect and does not end with the exception (stated, as
\* C5, for a caller that awaits each call before it makes the next).
C6_DeleteFailureNotPropagated ==
    [][\A t \in Tasks :
         (/\ pc[t] = "disconnect_delete"
          /\ pc'[t] # "disconnect_delete"
          /\ \A u \in Tasks \ {t} : log[u] = <<>>)
            => pc'[t] = "disconnect" /\ result'[t] # "DeleteFailed"]_vars

\* C8: when the transport connect fails, connect() ends with ConnectionFailed
\* and the transport is left without a connection (connect() returns normally
\* only with the connection open); from then on a further connect() is
\* accepted and is issued to the transport again.
C8_FailedConnectPropagates ==
    /\ [][\A t \in Tasks :
            (pc[t] = "connect" /\ pc'[t] = "idle")
               => \/ result'[t] = "ok" /\ connected'
                  \/ result'[t] = "ConnectionFailed" /\ ~connected']_vars
    /\ [](\A t \in Tasks :
            (pc[t] = "idle" /\ result[t] = "ConnectionFailed"
                /\ calls < MaxCalls)
               => ENABLED (Lifecycle /\ \E u \in Tasks :
                                          /\ pc[u] = "idle"
                                          /\ pc'[u] \in ConnectPcs
                                          /\ Len(log'[u]) = 1))

\* A connect() has failed in the transport connect, the session is without a
\* connection and the caller may call again.
C8_Witness ==
    \E t \in Tasks :
        /\ pc[t] = "idle"
        /\ result[t] = "ConnectionFailed"
        /\ log[t][Len(log[t])].op = "connect"
        /\ ~connected
        /\ calls < MaxCalls

\* The values of the items the stream() generators yielded, in order.
Yielded == [i \in DOMAIN out |-> out[i].item.data]

\* A disconnect() has run to its end and the session is still Disconnected.
DisconnectCompleted ==
    /\ SessionDisconnected
    /\ \E t \in Tasks :
         /\ pc[t] = "idle"
         /\ result[t] = "ok"
         /\ log[t] # <<>>
         /\ log[t][Len(log[t])].op = "disconnect"

\* C1: stream() yields one event per notification, in arrival order, none
\* overwritten by a later one: whenever the consumer is back in wait() on a
\* connected session, what it was given is the 1st, 2nd, ... notification, all
\* of them.
C1_OneEventPerNotification ==
    (connected /\ rpc[Consumer] = "waiting")
        => Yielded = [k \in 1..Len(notifs) |-> k]

\* C2: every item stream() yields is a structured event with the node id of
\* the notification that produced it, its value and a timestamp.
C2_EventsTaggedWithNode ==
    \A i \in DOMAIN out :
        LET e == out[i].item IN
        /\ {"node_id", "value", "timestamp"} \subseteq DOMAIN e
        /\ e.value \in DOMAIN notifs
        /\ e.node_id = notifs[e.value]

\* C7: a stream() read that is outstanding when disconnect() has run does not
\* stay blocked: a consumer that was being served and is waiting for the next
\* item at that moment leaves wait().
C7_OutstandingReadReturns ==
    (rpc[Consumer] = "waiting" /\ out # <<>> /\ DisconnectCompleted)
        ~> (rpc[Consumer] # "waiting")

\* C9: while one consumer is reading stream() a second reader is rejected, and
\* no two readers are both given items of the stream.
C9_SingleReader ==
    /\ Cardinality({r \in Readers : rpc[r] # "idle"}) <= 1
    /\ \A i, j \in DOMAIN out : out[i].reader = out[j].reader

\* C10: no notification is yielded twice, and every item yielded is a
\* notification that was delivered and not consumed before.
C10_ConsumedExactlyOnce ==
    /\ \A i \in DOMAIN out : Yielded[i] \in 1..Len(notifs)
    /\ \A i, j \in DOMAIN out : i # j => Yielded[i] # Yielded[j]

\* ---- browse vocabulary
\* browse_all returned a list of trees.
BrowsedAll ==
    bpc = "done" /\ bresult.op = "browse_all" /\ bresult.kind = "return"

Parent(n) == CHOOSE k \in DOMAIN space : \E i \in DOMAIN space[k] : space[k][i] = n

\* The tree under node n in which the subtree of node x, and no other, is
\* replaced by the error leaf e.
RECURSIVE TreeBut(_, _, _)
TreeBut(n, x, e) ==
    IF n = x THEN e
    ELSE [id |-> to_string(n), browse_name |-> BrowseName(n),
          children |-> [i \in 1..Len(space[n]) |->
                           TreeBut(space[n][i], x, e)]]

\* C11: when fetching the children or the name of exactly one node under the
\* root fails, the result of browse_all has an error leaf in the place of
\* that node's subtree and nowhere else: every sibling subtree and every
\* ancestor is present and fully traversed, at whatever depth the node is.
C11_FailureContainedToBranch ==
    (BrowsedAll /\ Cardinality(failing) = 1) =>
        \A f \in failing :
            bresult.value =
                [i \in 1..Len(space[Root]) |->
                    TreeBut(space[Root][i], f[2], ErrorLeaf(f[1], f[2]))]

\* browse_all returned from a space in which the one failing node is below a
\* child of the root, has a sibling and has children of its own.
C11_Witness ==
    /\ BrowsedAll
    /\ \E x \in DOMAIN space \ {Root} :
          /\ failing = {<<"get_children", x>>}
          /\ Parent(x) # Root
          /\ Len(space[Parent(x)]) > 1
          /\ space[x] # <<>>

\* C12: a browse error on any node, the listing of the root's own children
\* included, never aborts browse_all on a connected session: the call
\* returns a result and does not raise.
C12_BrowseAllNeverAborts ==
    [][(bpc \in {"root", "children", "name"} /\ connected)
          => ~(bpc' = "done" /\ bresult'.kind = "raise")]_vars

IsErrorLeaf(t) == "error" \in DOMAIN t

\* The entries of list are, position by position, the results for the
\* children of node n as the server lists them, and so on below them.
RECURSIVE InListingOrder(_, _)
InListingOrder(list, n) ==
    /\ Len(list) = Len(space[n])
    /\ \A i \in 1..Len(list) :
          IF IsErrorLeaf(list[i])
          THEN list[i].error[2] = space[n][i]
          ELSE /\ list[i].id = to_string(space[n][i])
               /\ InListingOrder(list[i].children, space[n][i])

RECURSIVE Flatten(_)
Flatten(ss) == IF ss = <<>> THEN <<>> ELSE Head(ss) \o Flatten(Tail(ss))

\* The nodes under and including n in depth-first order: n, then the whole
\* subtree of each child in listing order; nothing below a failing node.
RECURSIVE DepthFirst(_)
DepthFirst(n) ==
    <<n>> \o (IF \E f \in failing : f[2] = n THEN <<>>
              ELSE Flatten([i \in 1..Len(space[n]) |->
                               DepthFirst(space[n][i])]))

IsListing(c) == c[1] = "get_children"

\* The nodes whose children the browse asked for, in the order of asking.
Visited == [i \in 1..Len(SelectSeq(blog, IsListing)) |->
               SelectSeq(blog, IsListing)[i][2]]

\* C13: the trees browse_all returns list each node's children in exactly
\* the order the server's child listing gave them, and the nodes were
\* visited depth-first: a child's whole subtree before its next sibling.
C13_ListingOrderDepthFirst ==
    BrowsedAll =>
        /\ InListingOrder(bresult.value, Root)
        /\ Visited = DepthFirst(Root)

\* browse_all returned from a fault-free space in which some node lists two
\* children against their numbering, the first of them with children of
\* its own.
C13_Witness ==
    /\ BrowsedAll
    /\ failing = {}
    /\ \E n \in DOMAIN space :
          /\ Len(space[n]) > 1
          /\ space[n][1] > space[n][2]
          /\ space[space[n][1]] # <<>>

RECURSIVE WellFormed(_)
WellFormed(t) ==
    \/ DOMAIN t = {"error"}
    \/ /\ DOMAIN t = {"id", "browse_name", "children"}
       /\ \A i \in 1..Len(t.children) : WellFormed(t.children[i])

\* C14: every node of every tree browse_all returns is either a success
\* node (id, browse name and a children sequence of such nodes) or an error
\* leaf (the error message alone), never a mixture.
C14_SuccessNodeOrErrorLeaf ==
    BrowsedAll => \A i \in 1..Len(bresult.value) : WellFormed(bresult.value[i])

\* browse_all returned a tree that holds an error leaf below a success node
\* that also has a success child.
C14_Witness ==
    /\ BrowsedAll
    /\ \E i \in 1..Len(bresult.value) :
          LET t == bresult.value[i] IN
          /\ ~IsErrorLeaf(t)
          /\ \E j, k \in 1..Len(t.children) :
                IsErrorLeaf(t.children[j]) /\ ~IsErrorLeaf(t.children[k])

C16_RegisterFailureSurfaced ==
    \A i \in DOMAIN rtasks :
        rtasks[i].pc = "unreadable"
            => rtasks[i].reported # "Subscription started"

SubscribeErrors == {"ReadFailed", "CreateFailed", "MonitorFailed"}

\* C17: a subscribe_to_node call that failed leaves the subscription
\* registered before it recorded by the client (stated for a caller that
\* awaits each call before the next, with one subscription registered).
C17_FailedRegisterLeavesOthers ==
    \A t \in Tasks :
        (/\ pc[t] = "idle"
         /\ result[t] \in SubscribeErrors
         /\ \A u \in Tasks \ {t} : log[u] = <<>>
         /\ Cardinality({h \in DOMAIN tsub : Registered(h)}) = 1)
            => \A h \in DOMAIN tsub : Registered(h) => subscription = h

\* Every spawned subscribe_to_node task has run to its end and subscribed.
AllTasksSubscribed == \A i \in DOMAIN rtasks : rtasks[i].pc = "subscribed"

\* C18: unsubscribe() right after a completed unsubscribe(), when no
\* subscription is left and no register is in progress, is a no-op: no
\* transport deletion, no transport disconnect, no error.
C18_UnregisterIdempotent ==
    [][(/\ UnsubscribeCall
        /\ rhandler.response = "Unsubscribed"
        /\ AllTasksSubscribed
        /\ \A h \in DOMAIN rtransport.subs : ~RLive(h))
          => (/\ rhandler'.pc = "idle"
              /\ rhandler'.log = <<>>
              /\ rhandler'.response = "No active subscription")]_vars

\* The transport calls op that any call has issued or is suspended at.
Issued(op) == \E t \in Tasks : \E i \in DOMAIN log[t] : log[t][i].op = op

\* C19: a client whose message security mode is Sign or SignAndEncrypt while
\* its policy is None never issues a transport connect.
C19_ModeWithoutPolicyRejected ==
    (cfg.security_policy = "None" /\ cfg.message_security_mode # "None")
        => ~Issued("connect")

\* C20: a client with a security policy and exactly one of certificate_path
\* and private_key_path is rejected: the connection is never attempted with
\* the lone path dropped from the security string.
C20_LonePathRejected ==
    (/\ cfg.security_policy # "None"
     /\ cfg.certificate_path # cfg.private_key_path)
        => ~(Issued("connect") /\ Len(security) = 2)

\* C21: get_security_policies() works on a session of its own: no step of it
\* removes a subscription registered on the client it is called on (stated
\* for a caller that awaits each call before it makes the next).
C21_PoliciesLeaveSessionAlone ==
    [][\A t \in Tasks :
         (pc[t] \in PoliciesPcs /\ \A u \in Tasks \ {t} : log[u] = <<>>)
            => \A h \in DOMAIN tsub : Registered(h) => Registered(h)']_vars

\* Only one caller task ever ran: every call was awaited before the next.
Sequential == \E t \in Tasks : \A u \in Tasks \ {t} : log[u] = <<>>

\* C22: a subscription never outlives its session: once disconnect() has
\* completed, the client records no live subscription and every
\* subscription a register left on the transport has been deleted (stated
\* for a caller that awaits each call before it makes the next).
C22_NoSubscriptionOutlivesSession ==
    (DisconnectCompleted /\ Sequential) =>
        /\ ~Live(subscription)
        /\ \A h \in DOMAIN tsub :
              tsub[h].node # NoNode => tsub[h].state = "deleted"

\* C23: at most one connect/disconnect transition is in flight on the client
\* at any time: no lifecycle call is suspended in its transport work while
\* another one is.
C23_OneTransitionInFlight ==
    Cardinality({t \in Tasks : pc[t] \in ConnectPcs \cup DisconnectPcs}) <= 1

\* Subscription h is registered and live on a session other than the one
\* subscription g belongs to.
OtherSession(g, h) ==
    /\ RLive(h)
    /\ rtransport.subs[h].node # NoNode
    /\ rtransport.subs[h].conn # rtransport.subs[g].conn

\* C24: notification state is per session: a notification delivered on a
\* subscription of one session changes neither the latest value nor the
\* update signal that another session with a live registration observes.
C24_NotificationStatePerSession ==
    [][\A g \in DOMAIN rtransport.subs :
         (SubHandlerNotification(g)
            /\ \E h \in DOMAIN rtransport.subs : OtherSession(g, h))
         => /\ router'.latest_value = router.latest_value
            /\ router'.value_updated = router.value_updated]_vars

\* The last step was a generate_certificate call.
Generating == generations' = generations + 1

\* C25: certificate provisioning is idempotent: a generate_certificate call
\* that finds both the certificate and the key and is not told to overwrite
\* changes no file and returns the existing certificate path, and a call
\* skips generation in no other case.
C25_ProvisioningIdempotent ==
    [][Generating =>
         LET skip == /\ exists("client_cert")
                     /\ exists("client_key")
                     /\ ~generated'.overwrite
             skipped == /\ generated'.kind = "return"
                        /\ generated'.message = "skipping generation"
         IN /\ skip => /\ skipped
                       /\ files' = files
                       /\ generated'.certificate = "client_cert"
            /\ skipped => skip]_vars

\* A call generated both files and the next call skipped.
C25_Witness ==
    /\ generations >= 2
    /\ generated.kind = "return"
    /\ generated.message = "skipping generation"
    /\ files.client_cert = generations
    /\ files.client_key = generations

\* The transport delivered a notification in the last step.
Notified == Len(notifs') = Len(notifs) + 1

\* C26: the notification callback never blocks the dispatch path: the step
\* that delivers a notification issues no transport call and suspends or
\* resumes no call, it only records the value and signals the stream,
\* whatever subscribe_to_node or disconnect call is in progress.
C26_CallbackNeverBlocks ==
    [][Notified =>
         /\ log' = log
         /\ pc' = pc
         /\ UNCHANGED <<session, tsub, subscription, result>>
         /\ latest_value' = Len(notifs')
         /\ value_updated']_vars

\* A notification was delivered while a subscribe_to_node call was between
\* its read and its registration: the value it read has been overwritten.
C26_Witness ==
    /\ Len(notifs) >= 1
    /\ latest_value = Len(notifs)
    /\ value_updated
    /\ \E t \in Tasks : pc[t] \in {"subscribe_create", "subscribe_monitor"}

\* The places of log l where the transport primitive op was issued.
Ops(l, op) == {i \in DOMAIN l : l[i].op = op}

\* The log of task t is that of a subscribe_to_node call, and of one that
\* has returned.
Subscribing(t) == log[t] # <<>> /\ log[t][1].op = "read_value"
Subscribed(t) == Subscribing(t) /\ pc[t] = "idle" /\ result[t] = "ok"

\* C27: each subscribe_to_node call issues one registration against the
\* transport: at most one create_subscription and one subscribe_data_change,
\* the latter for the node of the call and no other, and exactly one of each
\* once the call has returned.
C27_OneRegistrationPerCall ==
    \A t \in Tasks :
       Subscribing(t) =>
          /\ Cardinality(Ops(log[t], "create_subscription")) <= 1
          /\ Cardinality(Ops(log[t], "subscribe_data_change")) <= 1
          /\ \A i \in Ops(log[t], "subscribe_data_change") :
                log[t][i].node = tnode[t]
          /\ Subscribed(t) =>
                /\ Cardinality(Ops(log[t], "create_subscription")) = 1
                /\ Cardinality(Ops(log[t], "subscribe_data_change")) = 1

\* Two calls for different nodes have returned, each with its own
\* registration.
C27_Witness ==
    /\ \A t \in Tasks : Subscribed(t)
    /\ tnode[1] # tnode[2]

\* C28: when connect() issues the transport connect, the security string is
\* already applied if the policy is not None (set_security_string came
\* earlier in the same call) and the credentials are already applied if both
\* username and password are given; with the policy None no security
\* configuration is ever applied.
C28_SecurityAppliedBeforeConnect ==
    /\ \A t \in Tasks : \A i \in Ops(log[t], "connect") :
          /\ cfg.security_policy # "None" =>
                /\ security = SecurityString(cfg)
                /\ \E j \in 1..(i - 1) :
                      log[t][j].op = "set_security_string"
          /\ (cfg.username /\ cfg.password) => credentials
    /\ cfg.security_policy = "None" =>
          /\ security = <<>>
          /\ ~Issued("set_security_string")

\* The transport connect was issued by a client with a policy, both paths
\* and both credentials.
C28_Witness ==
    /\ Issued("connect")
    /\ Len(security) = 4
    /\ credentials

\* The places of the browse log where the call c was issued.
IssuedAt(c) == {i \in DOMAIN blog : blog[i] = c}

RECURSIVE Nesting(_)
Nesting(list) ==
    IF list = <<>> THEN 0
    ELSE LET below == {IF IsErrorLeaf(list[i]) THEN 0
                       ELSE Nesting(list[i].children) : i \in DOMAIN list}
         IN  1 + CHOOSE m \in below : \A k \in below : k <= m

\* The leaf e occurs in the nested list.
RECURSIVE HasLeaf(_, _)
HasLeaf(list, e) ==
    \E i \in DOMAIN list :
       IF IsErrorLeaf(list[i]) THEN list[i] = e
       ELSE HasLeaf(list[i].children, e)

\* C30 as stated: on an address space whose hierarchy has a cycle, and with
\* no call failing, browse_all never completes.
C30_CyclicNeverCompletes == failing = {} => ~BrowsedAll

\* C30 as amended: browse_all performs no cycle detection: on an address
\* space whose hierarchy has a cycle, with no call failing, the traversal
\* lists a node of the cycle again and again down to the interpreter's
\* recursion limit, where an activation returns an error leaf, and the call
\* then completes with trees nested to that limit.
C30_CyclicRecursesToTheLimit ==
    (failing = {} /\ BrowsedAll) =>
        /\ \E n \in DOMAIN space :
              Cardinality(IssuedAt(<<"get_children", n>>)) > 1
        /\ Nesting(bresult.value) = MaxDepth
        /\ HasLeaf(bresult.value, RecursionLeaf)

\* browse_all has returned from a server with a cycle and no failing call.
C30_Witness ==
    /\ failing = {}
    /\ BrowsedAll
    /\ space \in CyclicSpaces

\* C31: setup_opcua answers a server_url that does not start with
\* "opc.tcp://" with the error value and leaves the global configuration as
\* it was.
C31_InvalidUrlRejected ==
    [][\A config \in SetupRequests :
         (setup_opcua(config)
            /\ ~startswith(config.server_url, "opc.tcp://"))
         => /\ rhandler'.response = "Invalid server_url"
            /\ router'.opcua_config = router.opcua_config]_vars

\* An url was rejected after an earlier request had installed its
\* configuration, which is still the one in force.
C31_Witness ==
    /\ rhandler.response = "Invalid server_url"
    /\ "server_url" \in DOMAIN router.opcua_config

\* C32: setup_opcua with a valid url succeeds: with a policy it installs the
\* request's url, policy, mode and credentials with the two auto-assigned
\* paths, and with the policy None it installs the request as given.
C32_SetupInstallsConfig ==
    [][\A config \in SetupRequests :
         (setup_opcua(config)
            /\ startswith(config.server_url, "opc.tcp://"))
         => /\ rhandler'.response = "OPC UA configuration updated"
            /\ router'.opcua_config =
                  IF config.security_policy # "None"
                  THEN SecureConfig(config) ELSE config]_vars

\* C33: with a single subscription and a consumer that keeps reading, the
\* most recent notification is yielded: the consumer is never back in wait()
\* with the signal cleared while the value of the most recent notification
\* has not been yielded, not even when that notification arrived between
\* the yield of the item before and the clearing of the signal.
C33_LatestNotificationYielded ==
    (rpc[Consumer] = "waiting" /\ ~value_updated /\ notifs # <<>>)
        => \E i \in DOMAIN out : Yielded[i] = Len(notifs)

\* C34: every value stream() yields was carried by a notification: never the
\* value subscribe_to_node read for a newly registered node, never the None
\* disconnect() writes.
C34_OnlyNotifiedValuesYielded ==
    \A i \in DOMAIN out : Yielded[i] \notin {InitialValue, NoneValue}

\* Every spawned subscribe_to_node task has run to its end.
TasksEnded ==
    \A i \in DOMAIN rtasks : rtasks[i].pc \in {"subscribed", "unreadable", "error"}

\* C35: every connection subscribe opened is closed by a later unsubscribe:
\* when unsubscribe() returns after the subscribe tasks have ended, no
\* connection of the router is open.
C35_UnsubscribeClosesConnections ==
    [][(/\ TasksEnded
        /\ rhandler'.calls = rhandler.calls + 1
        /\ rhandler'.response \in {"Unsubscribed", "No active subscription"})
          => \A k \in DOMAIN rtransport'.conns :
                rtransport'.conns[k] # "open"]_vars

\* A browse handler of the router has returned.
RouterBrowsed == rhandler.pc = "idle" /\ bresult.kind \in {"return", "error"}

\* An error leaf occurs somewhere in the nested list.
RECURSIVE AnyErrorLeaf(_)
AnyErrorLeaf(list) ==
    \E i \in DOMAIN list :
       \/ IsErrorLeaf(list[i])
       \/ "children" \in DOMAIN list[i] /\ AnyErrorLeaf(list[i].children)

\* A browse handler of the router has ended, by return or by exception.
RouterBrowseEnded == rhandler.pc = "idle" /\ bresult.kind # "none"

\* The handler issued the transport disconnect once, as its last call.
DisconnectedOnce == IssuedAt(<<"disconnect", rhandler.target>>) = {Len(blog)}

\* C36 as stated: browse_nodes and browse_children issue the transport
\* disconnect exactly once before returning, and a failure is returned as
\* the error value, never as a node list with part of it missing.
C36_DisconnectOnceErrorValue ==
    RouterBrowsed =>
        /\ DisconnectedOnce
        /\ bresult.kind = "return" => ~AnyErrorLeaf(bresult.value)

\* C36 as amended: both handlers issue the transport disconnect exactly
\* once, as their last call, on every path, and an exception of that
\* disconnect replaces the handler's return value.  Otherwise the error
\* value is returned for a failure of the security setup, of connect, of
\* the listing of the handler's own node and, in browse_children, of a
\* child's name read, and browse_children returns no partial list; in
\* browse_nodes a failure below the root is kept as an error leaf in place
\* in the returned trees.
C36_DisconnectOnceFailureContained ==
    /\ RouterBrowseEnded => DisconnectedOnce
    /\ RouterBrowsed =>
        /\ rtransport.conns[rhandler.target] = "closed"
        /\ (bresult.kind = "return" /\ bresult.op = "browse_children") =>
              bresult.value = [i \in 1..Len(space[bresult.node]) |->
                                 ChildData(space[bresult.node][i])]
        /\ (bresult.kind = "return" /\ bresult.op = "browse_nodes") =>
              InListingOrder(bresult.value, Root)
        /\ (bresult.kind = "error" /\ bresult.op = "browse_nodes") =>
              \/ bresult.error[1] \in {"set_security_string", "connect"}
              \/ bresult.error = <<"get_children", Root>>

\* browse_nodes returned trees with an error leaf in them.
C36_Witness ==
    /\ RouterBrowsed
    /\ bresult.kind = "return"
    /\ bresult.op = "browse_nodes"
    /\ AnyErrorLeaf(bresult.value)

\* The places where a node lists node n among its children.
Listings(n) ==
    {e \in UNION {{<<k, i>> : i \in DOMAIN space[k]} : k \in DOMAIN space} :
        space[e[1]][e[2]] = n}

\* The paths from the root to node n of an acyclic space: one for the root,
\* and for another node those of each node that lists it, per listing.
RECURSIVE Paths(_)
RECURSIVE PathsVia(_)
Paths(n) == IF n = Root THEN 1 ELSE PathsVia(Listings(n))
PathsVia(E) ==
    IF E = {} THEN 0
    ELSE LET e == CHOOSE x \in E : TRUE
         IN  Paths(e[1]) + PathsVia(E \ {e})

\* C37: on every finite acyclic address space, whatever calls the server
\* fails, a browse_all that was called ends, and it asks for the children of
\* each node at most once per path from the root to that node.
C37_AcyclicBrowseTerminates ==
    /\ (bpc = "root") ~> (bpc = "done")
    /\ [](\A n \in DOMAIN space :
            Cardinality(IssuedAt(<<"get_children", n>>)) <= Paths(n))

\* browse_all returned from a space in which a node is reached along two
\* paths, its children asked for once on each.
C37_Witness ==
    /\ BrowsedAll
    /\ \E n \in DOMAIN space :
          /\ Paths(n) = 2
          /\ Cardinality(IssuedAt(<<"get_children", n>>)) = 2

\* C38: whenever the certificate file and the key file both exist they come
\* from the same generation, whatever calls failed before, so that a call
\* that skips generation returns a pair that matches.
C38_CertificateMatchesKey ==
    (exists("client_cert") /\ exists("client_key"))
        => files.client_cert = files.client_key

====
